---- MODULE Spec2Model ----
(***************************************************************************)
(* Buddy allocation heap of core/executor/src/heap.rs.                     *)
(*                                                                         *)
(* The heap is a record of the struct's four fields.  Every method of      *)
(* `impl Heap` is an operator of the same name that takes the fields it    *)
(* reads and returns the fields it writes, together with `ok`, which is    *)
(* FALSE when the method panics (an out-of-range index, or an arithmetic   *)
(* overflow in a build with overflow checks).                              *)
(*                                                                         *)
(* Unsigned arithmetic: the values of the model stay far below 2^31, so    *)
(* the only wrap-arounds that can happen are the two decrements of zero    *)
(* (`ptr -= 1` and `(index + 1) / 2 - 1`).  A build with overflow checks   *)
(* panics there; a build without them wraps.  The wrapped value is         *)
(* represented by -1, its residue modulo 2^32 (2^64 for usize), which is   *)
(* exact for the additions and multiplications applied to it afterwards    *)
(* and is outside every table and every tree.                              *)
(***************************************************************************)
EXTENDS Integers, Sequences, FiniteSets, TLC

VARIABLES
    levels,           \* Heap.levels
    tree,             \* Heap.tree: 0 .. node_count-1 -> Node
    allocated_bytes,  \* Heap.allocated_bytes: byte offset -> requested size
    total_size,       \* Heap.total_size
    overflow_checks,  \* TRUE: build panics on integer overflow (debug); FALSE: wraps
    panicked,         \* TRUE once a method has panicked
    reserved,         \* the argument Heap::new was called with
    last,             \* the last call and what it returned: [op, ret]
    handed_out,       \* handles returned by allocate and not yet passed to deallocate
    calc,             \* the last evaluation of the size arithmetic: [fn, arg, out, ok]
    call              \* the call in progress, when its steps are taken one by one

vars == <<levels, tree, allocated_bytes, total_size, overflow_checks, panicked,
          reserved, last, handed_out, calc, call>>

BLOCK_SIZE == 8192

Free == "Free"
Full == "Full"
Split == "Split"
Node == {Free, Full, Split}

----------------------------------------------------------------------------
(* Bounds and inputs *)

\* allocate is called only while total_size + size stays within the heap's
\* 2^levels blocks plus this many
MaxExcessBlocks == 4

\* the `reserved` arguments of Heap::new : heaps of 0, 1, 2 and 4 leaves
ReservedValues ==
    {20, BLOCK_SIZE, 2 * BLOCK_SIZE, 2 * BLOCK_SIZE + 1, 4 * BLOCK_SIZE, 4 * BLOCK_SIZE + 1}

\* the `size` arguments of allocate
Sizes ==
    {BLOCK_SIZE - 1, BLOCK_SIZE, 2 * BLOCK_SIZE, 3 * BLOCK_SIZE,
     4 * BLOCK_SIZE, 4 * BLOCK_SIZE + 1}

\* the heap of 8 leaves and the sizes allocated on it
DeepReservedValues == {8 * BLOCK_SIZE}
DeepSizes == {BLOCK_SIZE, 2 * BLOCK_SIZE, 4 * BLOCK_SIZE}

\* heaps of every leaf count up to MaxLeaves, constructed from a multiple of
\* BLOCK_SIZE and from one byte and BLOCK_SIZE - 1 bytes more
MaxLeaves == 9
NewReservedValues ==
    {k * BLOCK_SIZE + r : k \in 0 .. MaxLeaves, r \in {0, 1, 20, BLOCK_SIZE - 1}}

AllSizes == Sizes \cup DeepSizes

Pow2(n) == 2 ^ n

----------------------------------------------------------------------------
(* Pure helpers *)

RECURSIVE shift_count(_)
\* while {count_blocks >>= 1; count_blocks > 0} {counter += 1}
shift_count(count_blocks) ==
    IF count_blocks \div 2 > 0 THEN 1 + shift_count(count_blocks \div 2) ELSE 0

\* a variant that counts the bits of count_blocks
get_tree_levels_bits(count_blocks) ==
    IF count_blocks = 0 THEN 0 ELSE 1 + shift_count(count_blocks)

get_tree_levels(count_blocks) ==
    IF count_blocks = 0 THEN 0 ELSE shift_count(count_blocks)

\* (index + 1) / 2 - 1 ; -1 stands for the decrement of zero
get_parent_node_index(index) == (index + 1) \div 2 - 1

\* vec![Node::Free; node_count]
new_tree(lv) == [i \in 0 .. (Pow2(lv + 1) - 1) - 1 |-> Free]

----------------------------------------------------------------------------
(* One activation of update_parent_nodes (lines 231-241) and of            *)
(* free_and_merge (lines 211-223), without the recursive call.  `merge`    *)
(* tells whether free_and_merge goes on to the parent.                     *)

update_parent_node(t, index) ==
    LET left_child == index * 2 + 1
        right_child == index * 2 + 2
    IN  IF left_child \notin DOMAIN t \/ right_child \notin DOMAIN t
        THEN [tree |-> t, ok |-> FALSE]
        ELSE
          LET children_free == t[left_child] = Free /\ t[right_child] = Free
              children_full == t[left_child] = Full /\ t[right_child] = Full
          IN  [tree |-> IF children_free THEN [t EXCEPT ![index] = Free]
                        ELSE IF children_full THEN [t EXCEPT ![index] = Full]
                        ELSE [t EXCEPT ![index] = Split],
               ok |-> TRUE]

free_node(t, index) ==
    IF index \notin DOMAIN t
    THEN [tree |-> t, ok |-> FALSE, merge |-> FALSE]
    ELSE
      LET t1 == [t EXCEPT ![index] = Free]
          has_right_buddy == (index % 2) = 1
          other_node == IF has_right_buddy THEN index + 1 ELSE index - 1
      IN  [tree |-> t1, ok |-> TRUE,
           merge |-> index # 0 /\ t1[other_node] = Free]

----------------------------------------------------------------------------
(* update_parent_nodes: returns [tree, ok] *)

RECURSIVE update_parent_nodes(_, _)
update_parent_nodes(t, index) ==
    LET left_child == index * 2 + 1
        right_child == index * 2 + 2
    IN  IF left_child \notin DOMAIN t \/ right_child \notin DOMAIN t
        THEN [tree |-> t, ok |-> FALSE]
        ELSE
          LET children_free == t[left_child] = Free /\ t[right_child] = Free
              children_full == t[left_child] = Full /\ t[right_child] = Full
              t1 == IF children_free THEN [t EXCEPT ![index] = Free]
                    ELSE IF children_full THEN [t EXCEPT ![index] = Full]
                    ELSE [t EXCEPT ![index] = Split]
          IN  IF index = 0
              THEN [tree |-> t1, ok |-> TRUE]
              ELSE update_parent_nodes(t1, get_parent_node_index(index))

----------------------------------------------------------------------------
(* free_and_merge: returns [tree, ok] *)

RECURSIVE free_and_merge(_, _)
free_and_merge(t, index) ==
    IF index \notin DOMAIN t
    THEN [tree |-> t, ok |-> FALSE]
    ELSE
      LET t1 == [t EXCEPT ![index] = Free]
          has_right_buddy == (index % 2) = 1
          other_node == IF has_right_buddy THEN index + 1 ELSE index - 1
      IN  IF index = 0
          THEN [tree |-> t1, ok |-> TRUE]
          ELSE IF t1[other_node] = Free
               THEN free_and_merge(t1, get_parent_node_index(index))
               ELSE [tree |-> t1, ok |-> TRUE]

----------------------------------------------------------------------------
(* free: returns [tree, ok] *)

\* lines 191-194: the tree index of the node of `count_blocks` blocks at
\* `block_offset`.  lv - requested_level is a u32 subtraction; without overflow
\* checks a negative difference wraps and the shift masks it to 5 bits.
index_offset(lv, block_offset, count_blocks) ==
    LET requested_level == get_tree_levels(count_blocks)
        current_level_offset == Pow2((lv - requested_level) % 32) - 1
        level_offset == block_offset \div Pow2(requested_level)
    IN  current_level_offset + level_offset

free(t, lv, block_offset, count_blocks, checks) ==
    IF lv - get_tree_levels(count_blocks) < 0 /\ checks
    THEN [tree |-> t, ok |-> FALSE]
    ELSE
      LET index == index_offset(lv, block_offset, count_blocks)
          \* index_offset > tree.len() - 1 is only traced; the call goes on
          m == free_and_merge(t, index)
          parent == get_parent_node_index(index)
      IN  IF ~m.ok
          THEN m
          ELSE IF parent < 0 /\ checks
               THEN [tree |-> m.tree, ok |-> FALSE]
               ELSE update_parent_nodes(m.tree, parent)

----------------------------------------------------------------------------
(* allocate_block_in_tree.  The loop state is [tree, index, current_level,  *)
(* pc]; pc is "down" at the head of 'down, "up" at the head of 'up,         *)
(* "found" after break 'down and "none" after return None.                 *)

\* a variant that claims the node and leaves its ancestors as they are
down_step_no_update(ls, levels_needed) ==
    LET index == ls.index
        t == ls.tree
        buddy_exists == (index % 2) = 1
        \* lines 140-146: shared tail of the body
        tail == IF buddy_exists
                THEN [ls EXCEPT !.index = index + 1]
                ELSE [ls EXCEPT !.pc = "up"]
    IN  IF ls.current_level = levels_needed
        THEN IF t[index] = Free
             THEN LET t1 == [t EXCEPT ![index] = Full]
                      t2 == t1
                  IN  [ls EXCEPT !.tree = t2, !.pc = "found"]
             ELSE tail
        ELSE CASE t[index] = Full ->
                    IF buddy_exists
                    THEN [ls EXCEPT !.index = index + 1]
                    ELSE [ls EXCEPT !.pc = "found"]
               [] t[index] = Free ->
                    [ls EXCEPT !.tree = [t EXCEPT ![index] = Split],
                               !.index = index * 2 + 1,
                               !.current_level = ls.current_level - 1]
               [] t[index] = Split ->
                    [ls EXCEPT !.index = index * 2 + 1,
                               !.current_level = ls.current_level - 1]

\* one pass through the body of 'down, up to the next continue / break / 'up
down_step(ls, levels_needed) ==
    LET index == ls.index
        t == ls.tree
        buddy_exists == (index % 2) = 1
        \* lines 140-146: shared tail of the body
        tail == IF buddy_exists
                THEN [ls EXCEPT !.index = index + 1]
                ELSE [ls EXCEPT !.pc = "up"]
    IN  IF ls.current_level = levels_needed
        THEN IF t[index] = Free
             THEN LET t1 == [t EXCEPT ![index] = Full]
                      t2 == IF index > 0
                            THEN update_parent_nodes(t1, get_parent_node_index(index)).tree
                            ELSE t1
                  IN  [ls EXCEPT !.tree = t2, !.pc = "found"]
             ELSE tail
        ELSE CASE t[index] = Full ->
                    IF buddy_exists
                    THEN [ls EXCEPT !.index = index + 1]
                    ELSE [ls EXCEPT !.pc = "found"]
               [] t[index] = Free ->
                    [ls EXCEPT !.tree = [t EXCEPT ![index] = Split],
                               !.index = index * 2 + 1,
                               !.current_level = ls.current_level - 1]
               [] t[index] = Split ->
                    [ls EXCEPT !.index = index * 2 + 1,
                               !.current_level = ls.current_level - 1]

\* a variant that goes back down into the parent itself, not into its buddy
up_step_same_node(ls) ==
    IF ls.index = 0
    THEN [ls EXCEPT !.pc = "none"]
    ELSE LET index == get_parent_node_index(ls.index)
             has_buddy == (index % 2) = 1
         IN  IF has_buddy
             THEN [ls EXCEPT !.index = index,
                             !.current_level = ls.current_level + 1,
                             !.pc = "down"]
             ELSE [ls EXCEPT !.index = index,
                             !.current_level = ls.current_level + 1]

\* one pass through the body of 'up
up_step(ls) ==
    IF ls.index = 0
    THEN [ls EXCEPT !.pc = "none"]
    ELSE LET index == get_parent_node_index(ls.index)
             has_buddy == (index % 2) = 1
         IN  IF has_buddy
             THEN [ls EXCEPT !.index = index + 1,
                             !.current_level = ls.current_level + 1,
                             !.pc = "down"]
             ELSE [ls EXCEPT !.index = index,
                             !.current_level = ls.current_level + 1]

loop_step(ls, levels_needed) ==
    IF ls.pc = "down" THEN down_step(ls, levels_needed) ELSE up_step(ls)

RECURSIVE run_loop(_, _)
run_loop(ls, levels_needed) ==
    IF ls.pc \in {"found", "none"}
    THEN ls
    ELSE run_loop(loop_step(ls, levels_needed), levels_needed)

\* returns [tree, some, block_offset]
allocate_block_in_tree(t, lv, blocks_needed) ==
    LET levels_needed == get_tree_levels(blocks_needed)
    IN  IF levels_needed > lv
        THEN [tree |-> t, some |-> FALSE, block_offset |-> 0]
        ELSE
          LET ls == run_loop([tree |-> t, index |-> 0, current_level |-> lv, pc |-> "down"],
                             levels_needed)
              current_level_offset == Pow2(lv - ls.current_level) - 1
              level_offset == ls.index - current_level_offset
              block_offset == level_offset * Pow2(ls.current_level)
          IN  IF ls.pc = "none"
              THEN [tree |-> ls.tree, some |-> FALSE, block_offset |-> 0]
              ELSE [tree |-> ls.tree, some |-> TRUE, block_offset |-> block_offset]

----------------------------------------------------------------------------
(* The public methods, on a heap h = [levels, tree, allocated_bytes,       *)
(* total_size].  They return the heap after the call, `ret` and `ok`.      *)

Heap(lv, t, ab, ts) ==
    [levels |-> lv, tree |-> t, allocated_bytes |-> ab, total_size |-> ts]

\* Heap::new
new(bytes) ==
    LET leaves == bytes \div BLOCK_SIZE
        lv == get_tree_levels(leaves)
    IN  Heap(lv, new_tree(lv), <<>>, 0)

\* FnvHashMap::insert and ::remove
insert(ab, k, v) == [x \in DOMAIN ab \cup {k} |-> IF x = k THEN v ELSE ab[x]]
remove(ab, k) == [x \in DOMAIN ab \ {k} |-> ab[x]]

\* a variant that returns the byte offset itself, without the + 1
allocate_offset(h, size, checks) ==
    LET blocks_needed == (size + BLOCK_SIZE - 1) \div BLOCK_SIZE
        r == allocate_block_in_tree(h.tree, h.levels, blocks_needed)
    IN  IF ~r.some
        THEN [heap |-> [h EXCEPT !.tree = r.tree], ret |-> 0, ok |-> TRUE]
        ELSE
          LET ptr == BLOCK_SIZE * r.block_offset
          IN  [heap |-> Heap(h.levels, r.tree, insert(h.allocated_bytes, ptr, size),
                             h.total_size + size),
               ret |-> ptr, ok |-> TRUE]

\* Heap::allocate.  The two u32 additions (size + BLOCK_SIZE - 1 and
\* total_size += size) stay below 2^31 for the sizes allocated here, so neither
\* build wraps or panics in them.  A call that returns None keeps the tree as
\* the search left it.
allocate(h, size, checks) ==
    LET blocks_needed == (size + BLOCK_SIZE - 1) \div BLOCK_SIZE
        r == allocate_block_in_tree(h.tree, h.levels, blocks_needed)
    IN  IF ~r.some
        THEN [heap |-> [h EXCEPT !.tree = r.tree], ret |-> 0, ok |-> TRUE]
        ELSE
          LET ptr == BLOCK_SIZE * r.block_offset
          IN  [heap |-> Heap(h.levels, r.tree, insert(h.allocated_bytes, ptr, size),
                             h.total_size + size),
               ret |-> ptr + 1, ok |-> TRUE]

\* Heap::deallocate
deallocate(h, ptr0, checks) ==
    IF ptr0 = 0 /\ checks
    THEN [heap |-> h, ret |-> 0, ok |-> FALSE]
    ELSE
      LET ptr == ptr0 - 1
      IN  IF ptr \notin DOMAIN h.allocated_bytes
          THEN [heap |-> h, ret |-> 0, ok |-> TRUE]
          ELSE
            LET allocated_size == h.allocated_bytes[ptr]
                count_blocks == (allocated_size + BLOCK_SIZE - 1) \div BLOCK_SIZE
                block_offset == ptr \div BLOCK_SIZE
                f == free(h.tree, h.levels, block_offset, count_blocks, checks)
            IN  IF ~f.ok
                THEN [heap |-> [h EXCEPT !.tree = f.tree], ret |-> 0, ok |-> FALSE]
                ELSE [heap |-> Heap(h.levels, f.tree, remove(h.allocated_bytes, ptr),
                                    IF h.total_size >= allocated_size
                                    THEN h.total_size - allocated_size ELSE 0),
                      ret |-> 0, ok |-> TRUE]

----------------------------------------------------------------------------
(* The size arithmetic at its full width.  A u32 value v is the pair       *)
(* <<v / BLOCK_SIZE, v % BLOCK_SIZE>>, so that values up to 2^32 - 1 can be *)
(* written; 2^32 is U32Blocks blocks.  Each operator returns [val, ok]:    *)
(* with overflow checks an overflowing operation panics (ok = FALSE),      *)
(* without them it wraps modulo 2^32.                                      *)

U32Blocks == Pow2(19)

\* a + b on u32
add_u32(a, b, checks) ==
    LET lo == a[2] + b[2]
        hi == a[1] + b[1] + lo \div BLOCK_SIZE
    IN  [val |-> <<hi % U32Blocks, lo % BLOCK_SIZE>>,
         ok |-> ~(checks /\ hi >= U32Blocks)]

\* a - 1 on u32
dec_u32(a, checks) ==
    IF a[2] > 0 THEN [val |-> <<a[1], a[2] - 1>>, ok |-> TRUE]
    ELSE IF a[1] > 0 THEN [val |-> <<a[1] - 1, BLOCK_SIZE - 1>>, ok |-> TRUE]
    ELSE [val |-> <<U32Blocks - 1, BLOCK_SIZE - 1>>, ok |-> ~checks]

\* line 72 (and 181): (size + BLOCK_SIZE - 1) / BLOCK_SIZE
blocks_needed_u32(size, checks) ==
    LET s1 == add_u32(size, <<1, 0>>, checks)
        s2 == dec_u32(s1.val, checks)
    IN  [val |-> s2.val[1], ok |-> s1.ok /\ s2.ok]

\* line 81: self.total_size += size
total_size_add_u32(total, size, checks) == add_u32(total, size, checks)

----------------------------------------------------------------------------
(* The state machine *)

heap == Heap(levels, tree, allocated_bytes, total_size)

\* lines 72-73 and 181: the block count and the level of a request
BlocksNeededOf(size) == (size + BLOCK_SIZE - 1) \div BLOCK_SIZE
TargetLevelOf(size) == get_tree_levels(BlocksNeededOf(size))

\* no call in progress
Idle == [pc |-> "idle", op |-> "none", arg |-> 0, index |-> 0, current_level |-> 0, at |-> 0]

\* the `ptr` arguments of deallocate: the sentinel, a stray pointer, and the
\* handle of every leaf block of the heap and of the block after the last
Ptrs == {0, 5} \cup {b * BLOCK_SIZE + 1 : b \in 0 .. Pow2(levels)}

Install(r, op) ==
    /\ levels' = r.heap.levels
    /\ tree' = r.heap.tree
    /\ allocated_bytes' = r.heap.allocated_bytes
    /\ total_size' = r.heap.total_size
    /\ panicked' = ~r.ok
    /\ last' = [op |-> op, ret |-> r.ret]
    /\ UNCHANGED <<overflow_checks, reserved, calc, call>>

InitFrom(reserveds, builds) ==
    \E bytes \in reserveds, checks \in builds :
        /\ reserved = bytes
        /\ levels = new(bytes).levels
        /\ tree = new(bytes).tree
        /\ allocated_bytes = new(bytes).allocated_bytes
        /\ total_size = new(bytes).total_size
        /\ overflow_checks = checks
        /\ panicked = FALSE
        /\ last = [op |-> "new", ret |-> 0]
        /\ handed_out = {}
        /\ calc = [fn |-> "none", arg |-> 0, out |-> 0, ok |-> TRUE]
        /\ call = Idle

AllocateFrom(sizes) ==
    /\ ~panicked
    /\ \E size \in sizes :
        /\ total_size + size <= (Pow2(levels) + MaxExcessBlocks) * BLOCK_SIZE
        /\ LET r == allocate(heap, size, overflow_checks)
           IN  /\ Install(r, "allocate")
               /\ handed_out' = IF r.ret # 0 THEN handed_out \cup {r.ret} ELSE handed_out

Init == InitFrom(ReservedValues, BOOLEAN)

Allocate == AllocateFrom(Sizes)

Deallocate ==
    /\ ~panicked
    /\ \E ptr \in Ptrs :
        /\ Install(deallocate(heap, ptr, overflow_checks), "deallocate")
        /\ handed_out' = handed_out \ {ptr}

Next == Allocate \/ Deallocate

Spec == Init /\ [][Next]_vars

\* the same heap code on a heap of 8 leaves, built without overflow checks
InitDeep == InitFrom(DeepReservedValues, {FALSE})

AllocateDeep == AllocateFrom(DeepSizes)

NextDeep == AllocateDeep \/ Deallocate

SpecDeep == InitDeep /\ [][NextDeep]_vars

\* every constructed heap, used one block at a time
InitNew == InitFrom(NewReservedValues, BOOLEAN)

AllocateBlock == AllocateFrom({BLOCK_SIZE})

NextNew == AllocateBlock \/ Deallocate

SpecNew == InitNew /\ [][NextNew]_vars

----------------------------------------------------------------------------
(* The same methods taken one step at a time: every pass through the body *)
(* of 'down and of 'up, and every activation of update_parent_nodes and of *)
(* free_and_merge, is a step of its own on the tree in place.  `call`      *)
(* holds the method, its argument, the position of the search (index,      *)
(* current_level) and the node the upward walk is at (at).  A call that is *)
(* running goes on running (fairness on RunCall).                          *)

StepReservedValues == {BLOCK_SIZE, 2 * BLOCK_SIZE, 4 * BLOCK_SIZE}
StepSizes == {BLOCK_SIZE, 2 * BLOCK_SIZE, 3 * BLOCK_SIZE, 4 * BLOCK_SIZE}

InitSteps == InitFrom(StepReservedValues, BOOLEAN)

\* the call ends: it returns `ret`, or panics when ~ok
EndCall(op, ret, ok) ==
    /\ call' = Idle
    /\ last' = [op |-> op, ret |-> ret]
    /\ panicked' = ~ok

\* allocate, lines 70-74 and 87-95
BeginAllocate ==
    /\ ~panicked
    /\ call.pc = "idle"
    /\ \E size \in StepSizes :
        /\ total_size + size <= (Pow2(levels) + MaxExcessBlocks) * BLOCK_SIZE
        /\ IF TargetLevelOf(size) > levels
           THEN EndCall("allocate", 0, TRUE)
           ELSE /\ call' = [pc |-> "down", op |-> "allocate", arg |-> size,
                            index |-> 0, current_level |-> levels, at |-> 0]
                /\ UNCHANGED <<last, panicked>>
    /\ UNCHANGED <<levels, tree, allocated_bytes, total_size, overflow_checks,
                   reserved, handed_out, calc>>

\* one pass through 'down or 'up, lines 97-161; the claim of a node (lines
\* 101-107) marks it Full and leaves its ancestors to UpdateStep
SearchStep ==
    /\ call.pc \in {"down", "up"}
    /\ LET ls == [tree |-> tree, index |-> call.index,
                  current_level |-> call.current_level, pc |-> call.pc]
           levels_needed == TargetLevelOf(call.arg)
       IN  IF call.pc = "down" /\ call.current_level = levels_needed
              /\ tree[call.index] = Free
           THEN /\ tree' = [tree EXCEPT ![call.index] = Full]
                /\ call' = IF call.index > 0
                           THEN [call EXCEPT !.pc = "update",
                                             !.at = get_parent_node_index(call.index)]
                           ELSE [call EXCEPT !.pc = "found"]
           ELSE LET n == loop_step(ls, levels_needed)
                IN  /\ tree' = n.tree
                    /\ call' = [call EXCEPT !.pc = n.pc, !.index = n.index,
                                            !.current_level = n.current_level]
    /\ UNCHANGED <<levels, allocated_bytes, total_size, overflow_checks, panicked,
                   reserved, last, handed_out, calc>>

\* one activation of update_parent_nodes, lines 230-251
UpdateStep ==
    /\ call.pc = "update"
    /\ LET u == update_parent_node(tree, call.at)
       IN  /\ tree' = u.tree
           /\ IF ~u.ok
              THEN EndCall(call.op, 0, FALSE)
              ELSE /\ call' = IF call.at > 0
                              THEN [call EXCEPT !.at = get_parent_node_index(call.at)]
                              ELSE [call EXCEPT !.pc = IF call.op = "allocate"
                                                       THEN "found" ELSE "freed"]
                   /\ UNCHANGED <<last, panicked>>
    /\ UNCHANGED <<levels, allocated_bytes, total_size, overflow_checks,
                   reserved, handed_out, calc>>

\* allocate_block_in_tree returns, lines 150 and 163-167, and allocate, lines 76-84
ReturnAllocate ==
    /\ call.op = "allocate"
    /\ call.pc \in {"found", "none"}
    /\ IF call.pc = "none"
       THEN /\ EndCall("allocate", 0, TRUE)
            /\ UNCHANGED <<allocated_bytes, total_size, handed_out>>
       ELSE LET current_level_offset == Pow2(levels - call.current_level) - 1
                level_offset == call.index - current_level_offset
                block_offset == level_offset * Pow2(call.current_level)
                ptr == BLOCK_SIZE * block_offset
            IN  /\ allocated_bytes' = insert(allocated_bytes, ptr, call.arg)
                /\ total_size' = total_size + call.arg
                /\ handed_out' = handed_out \cup {ptr + 1}
                /\ EndCall("allocate", ptr + 1, TRUE)
    /\ UNCHANGED <<levels, tree, overflow_checks, reserved, calc>>

\* deallocate, lines 171-182, and free, lines 190-198
BeginDeallocate ==
    /\ ~panicked
    /\ call.pc = "idle"
    /\ \E ptr \in Ptrs :
        /\ handed_out' = handed_out \ {ptr}
        /\ IF ptr = 0 /\ overflow_checks
           THEN EndCall("deallocate", 0, FALSE)
           ELSE IF ptr - 1 \notin DOMAIN allocated_bytes
           THEN EndCall("deallocate", 0, TRUE)
           ELSE LET count_blocks == BlocksNeededOf(allocated_bytes[ptr - 1])
                    block_offset == (ptr - 1) \div BLOCK_SIZE
                IN  IF levels - get_tree_levels(count_blocks) < 0 /\ overflow_checks
                    THEN EndCall("deallocate", 0, FALSE)
                    ELSE LET index == index_offset(levels, block_offset, count_blocks)
                         IN  /\ call' = [pc |-> "merge", op |-> "deallocate", arg |-> ptr,
                                         index |-> index, current_level |-> 0, at |-> index]
                             /\ UNCHANGED <<last, panicked>>
    /\ UNCHANGED <<levels, tree, allocated_bytes, total_size, overflow_checks,
                   reserved, calc>>

\* one activation of free_and_merge, lines 210-228; after the last one, free
\* goes on to update_parent_nodes, lines 202-203
MergeStep ==
    /\ call.pc = "merge"
    /\ LET f == free_node(tree, call.at)
           parent == get_parent_node_index(call.index)
       IN  /\ tree' = f.tree
           /\ IF ~f.ok
              THEN EndCall("deallocate", 0, FALSE)
              ELSE IF f.merge
              THEN /\ call' = [call EXCEPT !.at = get_parent_node_index(call.at)]
                   /\ UNCHANGED <<last, panicked>>
              ELSE IF parent < 0 /\ overflow_checks
              THEN EndCall("deallocate", 0, FALSE)
              ELSE /\ call' = [call EXCEPT !.pc = "update", !.at = parent]
                   /\ UNCHANGED <<last, panicked>>
    /\ UNCHANGED <<levels, allocated_bytes, total_size, overflow_checks,
                   reserved, handed_out, calc>>

\* deallocate returns, lines 184-187
ReturnDeallocate ==
    /\ call.pc = "freed"
    /\ LET ptr == call.arg - 1
           allocated_size == allocated_bytes[ptr]
       IN  /\ allocated_bytes' = remove(allocated_bytes, ptr)
           /\ total_size' = IF total_size >= allocated_size
                            THEN total_size - allocated_size ELSE 0
    /\ EndCall("deallocate", 0, TRUE)
    /\ UNCHANGED <<levels, tree, overflow_checks, reserved, handed_out, calc>>

RunCall == SearchStep \/ UpdateStep \/ ReturnAllocate \/ MergeStep \/ ReturnDeallocate

NextSteps ==
    \/ BeginAllocate
    \/ SearchStep
    \/ UpdateStep
    \/ ReturnAllocate
    \/ BeginDeallocate
    \/ MergeStep
    \/ ReturnDeallocate

SpecSteps == InitSteps /\ [][NextSteps]_vars /\ WF_vars(RunCall)

----------------------------------------------------------------------------
(* The size arithmetic on its own: get_tree_levels on every block count up *)
(* to MaxCount, and the u32 arithmetic of allocate on sizes around the     *)
(* block boundaries at both ends of the u32 range, one evaluation from    *)
(* each build of a fresh heap.                                             *)

MaxCount == 64

\* sizes <<blocks, bytes>> within MaxEdge blocks and bytes of a boundary
MaxEdge == 3

EdgeBlocks == (0 .. MaxEdge) \cup (U32Blocks - 1 - MaxEdge .. U32Blocks - 1)
EdgeBytes == (0 .. MaxEdge) \cup (BLOCK_SIZE - 1 - MaxEdge .. BLOCK_SIZE - 1)
WideSizes == EdgeBlocks \X EdgeBytes

EvalTreeLevels ==
    /\ calc.fn = "none"
    /\ \E n \in 0 .. MaxCount :
          calc' = [fn |-> "get_tree_levels", arg |-> n,
                   out |-> get_tree_levels(n), ok |-> TRUE]
    /\ UNCHANGED <<levels, tree, allocated_bytes, total_size, overflow_checks,
                   panicked, reserved, last, handed_out, call>>

EvalBlocksNeeded ==
    /\ calc.fn = "none"
    /\ \E size \in WideSizes :
          LET r == blocks_needed_u32(size, overflow_checks)
          IN  calc' = [fn |-> "blocks_needed", arg |-> size, out |-> r.val, ok |-> r.ok]
    /\ UNCHANGED <<levels, tree, allocated_bytes, total_size, overflow_checks,
                   panicked, reserved, last, handed_out, call>>

EvalTotalSize ==
    /\ calc.fn = "none"
    /\ \E total \in WideSizes, size \in WideSizes :
          LET r == total_size_add_u32(total, size, overflow_checks)
          IN  calc' = [fn |-> "total_size", arg |-> <<total, size>>,
                       out |-> r.val, ok |-> r.ok]
    /\ UNCHANGED <<levels, tree, allocated_bytes, total_size, overflow_checks,
                   panicked, reserved, last, handed_out, call>>

NextArith == EvalTreeLevels \/ EvalBlocksNeeded \/ EvalTotalSize

InitArith == InitFrom({BLOCK_SIZE}, BOOLEAN)

SpecArith == InitArith /\ [][NextArith]_vars

----------------------------------------------------------------------------
(* Vocabulary of the properties *)

\* the level of the node at `index`: the root is at `levels`, the leaves at 0
LevelOfNode(index) == levels - get_tree_levels(index + 1)

NodesAtLevel(l) == {i \in DOMAIN tree : LevelOfNode(i) = l}

RECURSIVE Ancestors(_)
Ancestors(index) ==
    IF index = 0 THEN {}
    ELSE {get_parent_node_index(index)} \cup Ancestors(get_parent_node_index(index))

\* some node at level l is Free and has no Full ancestor
Satisfiable(l) ==
    \E i \in NodesAtLevel(l) : tree[i] = Free /\ \A a \in Ancestors(i) : tree[a] # Full

RECURSIVE SumOf(_)
SumOf(f) ==
    IF DOMAIN f = {} THEN 0
    ELSE LET k == CHOOSE x \in DOMAIN f : TRUE
         IN  f[k] + SumOf([x \in DOMAIN f \ {k} |-> f[x]])

\* the block count and the target level the code computes for a request
BlocksNeeded(size) == (size + BLOCK_SIZE - 1) \div BLOCK_SIZE
TargetLevel(size) == get_tree_levels(BlocksNeeded(size))

AllFree == \A i \in DOMAIN tree : tree[i] = Free

----------------------------------------------------------------------------
(* Properties.  A property about what a call does is stated of the calls  *)
(* made in the states in which the program is still running (~panicked).   *)

\* C1: any two live allocations (entries of the live-size table, keyed by
\* handle-1) have disjoint byte ranges [handle-1, handle-1+size).
LiveRangesDisjoint ==
    \A o1, o2 \in DOMAIN allocated_bytes :
        o1 # o2 => \/ o1 + allocated_bytes[o1] <= o2
                   \/ o2 + allocated_bytes[o2] <= o1

\* C2: in every reachable state, allocate(size) returns 0 when no node at the
\* request's target level is Free with all of its ancestors non-Full.
UnsatisfiableReturnsZero ==
    ~panicked => \A size \in AllSizes :
        ~Satisfiable(TargetLevel(size))
            => allocate(heap, size, overflow_checks).ret = 0

\* C3: every allocate(size) with size > 2^levels * BLOCK_SIZE returns 0 and
\* leaves the heap unchanged, and allocate(2^levels * BLOCK_SIZE) succeeds on a
\* fresh heap.
OversizeRejected ==
    /\ ~panicked => \A size \in AllSizes :
          size > Pow2(levels) * BLOCK_SIZE
              => LET r == allocate(heap, size, overflow_checks)
                 IN  r.ret = 0 /\ r.ok /\ r.heap = heap
    /\ last.op = "new"
          => allocate(heap, Pow2(levels) * BLOCK_SIZE, overflow_checks).ret # 0

\* C4: every successful allocate(size) returns h >= 1 with h-1 a multiple of
\* BLOCK_SIZE and [h-1, h-1+size) inside [0, 2^levels * BLOCK_SIZE).
HandleInUsableRegion ==
    ~panicked => \A size \in AllSizes :
        LET r == allocate(heap, size, overflow_checks)
        IN  r.ret # 0 => /\ r.ret >= 1
                         /\ (r.ret - 1) % BLOCK_SIZE = 0
                         /\ (r.ret - 1) + size <= Pow2(levels) * BLOCK_SIZE

\* C5: in every reachable state, an allocate call that returns 0 leaves the
\* tree, the live-size table and total_size as they were.
FailedAllocateLeavesHeap ==
    ~panicked => \A size \in AllSizes :
        LET r == allocate(heap, size, overflow_checks)
        IN  r.ret = 0 => r.heap = heap

\* C6: deallocate(h) of a handle that is not live (never returned, already
\* deallocated, or the sentinel 0) returns normally and changes nothing.
DeallocateUnknownIsNoop ==
    ~panicked => \A ptr \in Ptrs :
        (ptr - 1) \notin DOMAIN allocated_bytes
            => LET d == deallocate(heap, ptr, overflow_checks)
               IN  d.ok /\ d.heap = heap

\* C7: deallocate(h) of a live handle completes normally (no index out of the
\* tree, no underflow), sets the allocation's node Free and removes its entry,
\* also when the allocation occupies the root.
DeallocateLiveFrees ==
    ~panicked => \A ptr \in Ptrs :
        (ptr - 1) \in DOMAIN allocated_bytes
            => LET d == deallocate(heap, ptr, overflow_checks)
                   node == index_offset(levels, (ptr - 1) \div BLOCK_SIZE,
                                        BlocksNeeded(allocated_bytes[ptr - 1]))
               IN  /\ d.ok
                   /\ d.heap.tree[node] = Free
                   /\ (ptr - 1) \notin DOMAIN d.heap.allocated_bytes

\* C8: once every handle returned by a successful allocate has been passed to
\* deallocate (and every call has returned), every node is Free and the
\* live-size table is empty.
AllReleasedAllFree ==
    (~panicked /\ handed_out = {}) => (AllFree /\ DOMAIN allocated_bytes = {})

\* C9: total_size is the sum of the sizes in the live-size table.
TotalSizeIsSumOfLive ==
    total_size = SumOf(allocated_bytes)

\* C10: a successful allocate(size) followed at once by deallocate of its
\* handle restores the heap, so that repeating the pair returns the same handle.
AllocateDeallocateRoundTrip ==
    ~panicked => \A size \in AllSizes :
        LET a == allocate(heap, size, overflow_checks)
            d == deallocate(a.heap, a.ret, overflow_checks)
        IN  a.ret # 0 =>
                /\ d.ok
                /\ d.heap = heap
                /\ allocate(d.heap, size, overflow_checks).ret = a.ret

\* C11: get_tree_levels(n) is the smallest k with 2^k >= n, and 0 for n = 0.
TreeLevelsIsCeilLog2 ==
    calc.fn = "get_tree_levels" =>
        /\ Pow2(calc.out) >= calc.arg
        /\ calc.out > 0 => Pow2(calc.out - 1) < calc.arg
        /\ calc.arg = 0 => calc.out = 0

\* the exact values, for C18
CeilBlocks(size) == size[1] + (IF size[2] > 0 THEN 1 ELSE 0)
Fits32(a, b) ==
    a[1] + b[1] + (a[2] + b[2]) \div BLOCK_SIZE < U32Blocks

\* C18: for every u32 size the block count computed is ceil(size / BLOCK_SIZE)
\* and size + BLOCK_SIZE - 1 does not wrap; total_size + size does not wrap.
BlockCountIsCeilNoWrap ==
    /\ calc.fn = "blocks_needed" =>
          /\ calc.ok
          /\ calc.out = CeilBlocks(calc.arg)
          /\ Fits32(calc.arg, <<0, BLOCK_SIZE - 1>>)
    /\ calc.fn = "total_size" =>
          /\ calc.ok
          /\ Fits32(calc.arg[1], calc.arg[2])

\* C12: Heap::new(reserved) with reserved >= BLOCK_SIZE has
\* levels = floor(log2(reserved / BLOCK_SIZE)), a tree of exactly
\* 2^(levels+1) - 1 nodes, all Free, an empty table and total_size 0, and it is
\* the heap constructed from the largest multiple of BLOCK_SIZE not above
\* reserved.
ConstructShape ==
    (last.op = "new" /\ reserved >= BLOCK_SIZE) =>
        LET leaves == reserved \div BLOCK_SIZE
        IN  /\ Pow2(levels) <= leaves
            /\ leaves < Pow2(levels + 1)
            /\ DOMAIN tree = 0 .. Pow2(levels + 1) - 2
            /\ Cardinality(DOMAIN tree) = Pow2(levels + 1) - 1
            /\ AllFree
            /\ DOMAIN allocated_bytes = {}
            /\ total_size = 0
            /\ heap = new(reserved - (reserved % BLOCK_SIZE))

\* a heap has just been constructed from three blocks and some bytes more
ConstructShapeWitness ==
    /\ last.op = "new"
    /\ reserved \div BLOCK_SIZE = 3
    /\ reserved % BLOCK_SIZE # 0

NodeOf(offset, size) == index_offset(levels, offset \div BLOCK_SIZE, BlocksNeeded(size))

\* the state in which the search loop of allocate(size) ends
Search(size) ==
    run_loop([tree |-> tree, index |-> 0, current_level |-> levels, pc |-> "down"],
             TargetLevel(size))

\* allocate(size) ends by marking a Free node of the target level Full
Claims(size) ==
    /\ TargetLevel(size) <= levels
    /\ Search(size).pc = "found"
    /\ Search(size).current_level = TargetLevel(size)

LiveNodeFullPathNotFree ==
    ~panicked =>
        \A off \in DOMAIN allocated_bytes :
            LET n == NodeOf(off, allocated_bytes[off])
            IN  /\ n \in DOMAIN tree
                /\ tree[n] = Full
                /\ \A a \in Ancestors(n) : tree[a] \in {Split, Full}

\* C15: for every entry offset -> size of the live-size table, offset is a
\* multiple of BLOCK_SIZE, size is the value passed to the allocate that
\* returned offset + 1, and the node of that size at that offset is Full: the
\* node deallocate will release is the node allocate claimed.
TableEntryIsClaimedNode ==
    ~panicked =>
        /\ \A off \in DOMAIN allocated_bytes :
              /\ off % BLOCK_SIZE = 0
              /\ NodeOf(off, allocated_bytes[off]) \in DOMAIN tree
              /\ tree[NodeOf(off, allocated_bytes[off])] = Full
        /\ \A size \in AllSizes :
              LET r == allocate(heap, size, overflow_checks)
              IN  r.ret # 0 =>
                    /\ r.heap.allocated_bytes[r.ret - 1] = size
                    /\ Claims(size)
                    /\ NodeOf(r.ret - 1, size) = Search(size).index

\* the nodes of level l that are Free and have no Full ancestor
Candidates(l) ==
    {i \in NodesAtLevel(l) : tree[i] = Free /\ \A a \in Ancestors(i) : tree[a] # Full}

Leftmost(nodes) == CHOOSE i \in nodes : \A j \in nodes : i <= j

\* the byte offset of the node at `index` of level l
OffsetOfNode(index, l) == (index - (Pow2(levels - l) - 1)) * Pow2(l) * BLOCK_SIZE

\* C16: whenever allocate succeeds, the offset it returns is that of the
\* leftmost node of the target level that was Free with no Full ancestor before
\* the call; and whenever there is such a node, allocate succeeds with it.
FirstFit ==
    ~panicked =>
        \A size \in AllSizes :
            LET l == TargetLevel(size)
                r == allocate(heap, size, overflow_checks)
            IN  /\ r.ret # 0 =>
                      /\ Candidates(l) # {}
                      /\ r.ret - 1 = OffsetOfNode(Leftmost(Candidates(l)), l)
                /\ Candidates(l) # {} =>
                      /\ r.ret # 0
                      /\ r.ret - 1 = OffsetOfNode(Leftmost(Candidates(l)), l)

\* C19: a successful allocate never returns a handle that is live: the offset
\* it inserts is not yet a key of the table, no entry's size is overwritten,
\* and the table has as many entries as there are live handles.
FreshHandle ==
    ~panicked =>
        /\ Cardinality(DOMAIN allocated_bytes) = Cardinality(handed_out)
        /\ \A size \in AllSizes :
              LET r == allocate(heap, size, overflow_checks)
              IN  r.ret # 0 =>
                    /\ r.ret \notin handed_out
                    /\ r.ret - 1 \notin DOMAIN allocated_bytes
                    /\ \A off \in DOMAIN allocated_bytes :
                          r.heap.allocated_bytes[off] = allocated_bytes[off]

\* C20: deallocate of a live handle touches only that allocation: every other
\* entry of the table stays as it is and its node, when Full, stays Full, and
\* no node other than the released node and its ancestors changes state.
DeallocateTouchesOnlyItsOwn ==
    ~panicked =>
        \A off \in DOMAIN allocated_bytes :
            LET d == deallocate(heap, off + 1, overflow_checks)
                n == NodeOf(off, allocated_bytes[off])
            IN  /\ \A o \in DOMAIN allocated_bytes \ {off} :
                      /\ o \in DOMAIN d.heap.allocated_bytes
                      /\ d.heap.allocated_bytes[o] = allocated_bytes[o]
                      /\ LET m == NodeOf(o, allocated_bytes[o])
                         IN  (m \in DOMAIN tree /\ tree[m] = Full) => d.heap.tree[m] = Full
                /\ \A i \in DOMAIN tree \ ({n} \cup Ancestors(n)) :
                      d.heap.tree[i] = tree[i]

\* C17: every allocate call and every deallocate call terminates: the search
\* loop of allocate and the upward walks of free_and_merge and
\* update_parent_nodes come to an end, by a return or by a panic.
CallTerminates == (call.pc # "idle") ~> (call.pc = "idle")

\* the search of an allocate call has gone down below the children of the
\* root, found nothing there and is backtracking
CallTerminatesWitness ==
    /\ call.op = "allocate"
    /\ call.pc = "up"
    /\ call.index > 2

====
